---- MODULE Spec2Model ----
(***************************************************************************)
(* Model of the issues microservice: five tonic controllers (boards,      *)
(* columns, issues, epics, dependencies) over a diesel/Postgres store,     *)
(* each handler spawning a fire-and-forget publish to the event bus.       *)
(*                                                                         *)
(* The tokio runtime is current_thread and every diesel call is blocking,  *)
(* so a unary handler runs from its first line to its return without       *)
(* yielding: one action per handler.  Tasks the handler spawns (the        *)
(* publish call) run later, as actions of their own.                       *)
(***************************************************************************)
EXTENDS Integers, Sequences, FiniteSets, TLC

\* ------------------------------------------------------------------ bounds
MaxIds == 2        \* uuids minted in one run
MaxPending == 1    \* publish tasks spawned and not yet run

\* ------------------------------------------------------- Option and Result
None == <<>>
Some(v) == <<v>>
IsSome(o) == o # <<>>
Unwrap(o) == o[1]

Ok(v) == [kind |-> "Ok", val |-> <<v>>, err |-> ""]
Err(e) == [kind |-> "Err", val |-> <<>>, err |-> e]
Panicked == [kind |-> "Panic", val |-> <<>>, err |-> ""]

\* ------------------------------------------------------------------ schema
\* Column order of each table, as table! declares it.
BoardsColumns == <<"id", "project_id">>
ColumnsColumns == <<"id", "board_id", "name">>
DependenciesColumns == <<"id", "blocking_epic_id", "blocked_epic_id">>
EpicsColumns ==
    <<"id", "column_id", "assignee_id", "reporter_id", "name", "description",
      "start_date", "due_date">>
IssuesColumns == <<"id", "column_id", "epic_id", "title", "description">>

Tables == {"boards", "columns", "issues", "epics", "dependencies"}

\* Field order of each #[derive(Queryable)] struct.
BoardFields == <<"id", "project_id">>
ColumnFields == <<"id", "board_id", "name">>
IssueFields == <<"id", "column_id", "epic_id", "title", "description">>
EpicFields ==
    <<"id", "column_id", "assignee_id", "name", "reporter_id", "description",
      "start_date", "due_date">>
DependencyFields == <<"id", "blocking_epic_id", "blocked_epic_id">>

Range(s) == {s[i] : i \in DOMAIN s}

\* #[derive(Queryable)]: the i-th selected column fills the i-th field of
\* the struct, whatever the two are called.
Queryable(row, cols, fields) ==
    [f \in Range(fields) |->
        row[cols[CHOOSE i \in DOMAIN fields : fields[i] = f]]]

VARIABLES
    phase,        \* main: "starting", "serving" or "exited"
    service,      \* the service this run's clients call
    db,           \* table name -> sequence of rows
    nextId,       \* uuids minted so far, plus one
    everCreated,  \* <<table, id>> of every row ever inserted
    fresh,        \* id -> what Create returned, until an Update or Delete of it
    pending,      \* spawned publish tasks that have not run
    last,         \* the call handled last
    twin,         \* the same call, handled with the event bus up
    stream,       \* the Search stream that is open, and its emission task
    checkedOut,   \* connections that are out of the pool
    inflight      \* the response of the last unary call is on its way

vars == <<phase, service, db, nextId, everCreated, fresh, pending, last, twin,
          stream, checkedOut, inflight>>

\* ------------------------------------------------------------ environment
Faults == {"none", "db", "pool"}   \* what goes wrong in the store during a call
BusStates == {"up", "failing", "unreachable"}
Str == {"a", "b"}

\* uuid::Uuid::new_v4().to_string()
Uuid(n) == ToString(n)
Ids == {Uuid(n) : n \in 1..MaxIds}

\* ------------------------------------------------------- diesel statements
\* The outcome of a statement: the rows it returns and the table it leaves.
Rows(rows, t) == [kind |-> "Ok", rows |-> rows, err |-> "", table |-> t]
Failed(e, t) == [kind |-> "Err", rows |-> <<>>, err |-> e, table |-> t]
Unwound(t) == [kind |-> "Panic", rows |-> <<>>, err |-> "", table |-> t]

Limit(rows, n) == SubSeq(rows, 1, IF Len(rows) < n THEN Len(rows) ELSE n)

\* A load that forgets the filter: the first row of the table, whatever its id.
LoadFirstRow(t, x, fault) ==
    IF fault = "db" THEN Failed("DatabaseError", t)
    ELSE Rows(Limit(t, 1), t)

\* table.filter(id.eq(x)).limit(1).load(conn)
LoadById(t, x, fault) ==
    IF fault = "db" THEN Failed("DatabaseError", t)
    ELSE Rows(Limit(SelectSeq(t, LAMBDA r : r.id = x), 1), t)

\* insert_into(table).values(new_row).get_results(conn)
InsertInto(t, new_row, fault) ==
    IF fault = "db" THEN Failed("DatabaseError", t)
    ELSE Rows(<<new_row>>, Append(t, new_row))

\* A delete that returns the row asked for and empties the table.
DeleteUnfiltered(t, x, fault) ==
    IF fault = "db" THEN Failed("DatabaseError", t)
    ELSE Rows(SelectSeq(t, LAMBDA r : r.id = x), <<>>)

\* delete(table).filter(id.eq(x)).get_results(conn)
DeleteFrom(t, x, fault) ==
    IF fault = "db" THEN Failed("DatabaseError", t)
    ELSE Rows(SelectSeq(t, LAMBDA r : r.id = x), SelectSeq(t, LAMBDA r : r.id # x))

\* A changeset that also writes the key column.
AssignWithKey(row, cs, nullable) ==
    [c \in DOMAIN row |->
        IF c = "id" THEN "0"
        ELSE IF c \in DOMAIN cs /\ IsSome(cs[c])
        THEN (IF c \in nullable THEN cs[c] ELSE Unwrap(cs[c]))
        ELSE row[c]]

\* #[derive(AsChangeset)]: a field that is None is left out of the SET
\* clause; a field that is Some(v) assigns v to the column of its name.
Assign(row, cs, nullable) ==
    [c \in DOMAIN row |->
        IF c \in DOMAIN cs /\ IsSome(cs[c])
        THEN (IF c \in nullable THEN cs[c] ELSE Unwrap(cs[c]))
        ELSE row[c]]

\* update(table).filter(id.eq(x)).set(change_set).get_results(conn); diesel
\* refuses to build an UPDATE whose changeset holds no Some field.
UpdateSet(t, x, cs, nullable, fault) ==
    IF \A c \in DOMAIN cs : cs[c] = None THEN Failed("QueryBuilderError", t)
    ELSE IF fault = "db" THEN Failed("DatabaseError", t)
    ELSE LET new == [i \in DOMAIN t |->
                        IF t[i].id = x THEN Assign(t[i], cs, nullable) ELSE t[i]]
         IN  Rows(SelectSeq(new, LAMBDA r : r.id = x), new)

\* ------------------------------------------------------ repo result idioms
\* .expect("..."): an Err panics.
Expect(r) == IF r.kind = "Err" THEN Unwound(r.table) ELSE r

\* result.first().unwrap(): mapped through Queryable; no row panics.
FirstUnwrap(r, cols, fields) ==
    IF r.kind # "Ok" THEN [res |-> (IF r.kind = "Err" THEN Err(r.err) ELSE Panicked),
                           table |-> r.table]
    ELSE IF r.rows = <<>> THEN [res |-> Panicked, table |-> r.table]
    ELSE [res |-> Ok(Queryable(r.rows[1], cols, fields)), table |-> r.table]

\* match result.first() { Some(x) => x, None => return Err(Error::NotFound) }
FirstOrNotFound(r, cols, fields) ==
    IF r.kind # "Ok" THEN [res |-> (IF r.kind = "Err" THEN Err(r.err) ELSE Panicked),
                           table |-> r.table]
    ELSE IF r.rows = <<>> THEN [res |-> Err("NotFound"), table |-> r.table]
    ELSE [res |-> Ok(Queryable(r.rows[1], cols, fields)), table |-> r.table]

\* ----------------------------------------------------------- repos: board
Board_create(new_board, t, fault) ==
    FirstUnwrap(InsertInto(t, new_board, fault), BoardsColumns, BoardFields)

Board_delete(board_id, t, fault) ==
    FirstOrNotFound(DeleteFrom(t, board_id, fault), BoardsColumns, BoardFields)

\* ---------------------------------------------------------- repos: column
Column_create(new_column, t, fault) ==
    FirstUnwrap(Expect(InsertInto(t, new_column, fault)), ColumnsColumns, ColumnFields)

Column_update(column_id, change_set, t, fault) ==
    FirstUnwrap(Expect(UpdateSet(t, column_id, change_set, {}, fault)),
                ColumnsColumns, ColumnFields)

Column_delete(column_id, t, fault) ==
    FirstUnwrap(Expect(DeleteFrom(t, column_id, fault)), ColumnsColumns, ColumnFields)

\* ----------------------------------------------------------- repos: issue
Issue_create(new_issue, t, fault) ==
    FirstUnwrap(Expect(InsertInto(t, new_issue, fault)), IssuesColumns, IssueFields)

Issue_update(issue_id, change_set, t, fault) ==
    FirstUnwrap(Expect(UpdateSet(t, issue_id, change_set, {}, fault)),
                IssuesColumns, IssueFields)

Issue_delete(issue_id, t, fault) ==
    FirstUnwrap(Expect(DeleteFrom(t, issue_id, fault)), IssuesColumns, IssueFields)

\* ------------------------------------------------------------ repos: epic
EpicsNullable == {"assignee_id", "description"}

Epic_create(new_epic, t, fault) ==
    FirstUnwrap(InsertInto(t, new_epic, fault), EpicsColumns, EpicFields)

Epic_update(epic_id, change_set, t, fault) ==
    FirstOrNotFound(UpdateSet(t, epic_id, change_set, EpicsNullable, fault),
                    EpicsColumns, EpicFields)

Epic_delete(epic_id, t, fault) ==
    FirstOrNotFound(DeleteFrom(t, epic_id, fault), EpicsColumns, EpicFields)

\* ------------------------------------------------------ repos: dependency
Dependency_create(new_dependency, t, fault) ==
    FirstUnwrap(InsertInto(t, new_dependency, fault),
                DependenciesColumns, DependencyFields)

Dependency_delete(dependency_id, t, fault) ==
    FirstOrNotFound(DeleteFrom(t, dependency_id, fault),
                    DependenciesColumns, DependencyFields)

\* ------------------------------------------------------ handler outcomes
\* What a handler leaves behind: the Status and body it returns, the publish
\* requests it spawned, the uuids it minted and the database.
Reply(status, body, event, d, minted) ==
    [status |-> status, body |-> body, spawned |-> <<event>>, db |-> d,
     minted |-> minted]

\* A panic unwinds the handler: nothing is returned and nothing is spawned.
Panic(d, minted) ==
    [status |-> "PANIC", body |-> None, spawned |-> <<>>, db |-> d,
     minted |-> minted]

\* An error descriptor that says Unavailable whatever went wrong.
EventErrorUnavailable(code) == Some([code |-> "Unavailable"])

\* Some(Error { code: Code::X as i32, message: .. })
EventError(code) == Some([code |-> code])

\* ------------------------------------------------------ controllers: boards
ProtoBoard(brd) == [id |-> brd.id, project_id |-> brd.project_id]
BoardEvent(method, bid, pid, error) ==
    [method |-> method, entity |-> Some([id |-> bid, project_id |-> pid]),
     error |-> error]

get_board_by_id(data, d, fault) ==
    IF fault = "pool" THEN Panic(d, 0)
    ELSE LET result == LoadById(d.boards, data.board_id, fault) IN
         IF result.kind = "Ok"
         THEN IF result.rows # <<>>
              THEN LET brd == Queryable(result.rows[1], BoardsColumns, BoardFields) IN
                   Reply("OK", Some(ProtoBoard(brd)),
                         BoardEvent("get_board_by_id_event", Some(brd.id),
                                    Some(brd.project_id), None), d, 0)
              ELSE Reply("NOT_FOUND", None,
                         BoardEvent("get_board_by_id_event", Some(data.board_id),
                                    None, EventError("NotFound")), d, 0)
         ELSE Reply("UNAVAILABLE", None,
                    BoardEvent("get_board_by_id_event", Some(data.board_id),
                               None, EventError("Unavailable")), d, 0)

get_board_by_project_id(data, d, fault) ==
    IF fault = "pool" THEN Panic(d, 0)
    ELSE LET result ==
                 IF fault = "db" THEN Failed("DatabaseError", d.boards)
                 ELSE Rows(Limit(SelectSeq(d.boards,
                                 LAMBDA r : r.project_id = data.project_id), 1),
                           d.boards)
         IN
         IF result.kind = "Ok"
         THEN IF result.rows # <<>>
              THEN LET brd == Queryable(result.rows[1], BoardsColumns, BoardFields) IN
                   Reply("OK", Some(ProtoBoard(brd)),
                         BoardEvent("get_board_by_project_id_event", Some(brd.id),
                                    Some(brd.project_id), None), d, 0)
              ELSE Reply("NOT_FOUND", None,
                         BoardEvent("get_board_by_project_id_event", None,
                                    Some(data.project_id), EventError("NotFound")),
                         d, 0)
         ELSE Reply("UNAVAILABLE", None,
                    BoardEvent("get_board_by_project_id_event", None,
                               Some(data.project_id), EventError("Unavailable")),
                    d, 0)

create_board(data, d, fault, uuid) ==
    IF fault = "pool" THEN Panic(d, 0)
    ELSE LET new_board == [id |-> uuid, project_id |-> data.project_id]
             r == Board_create(new_board, d.boards, fault)
             d2 == [d EXCEPT !.boards = r.table]
         IN
         CASE r.res.kind = "Ok" ->
                LET brd == Unwrap(r.res.val) IN
                Reply("OK", Some(ProtoBoard(brd)),
                      BoardEvent("create_board_event", Some(brd.id),
                                 Some(brd.project_id), None), d2, 1)
           [] r.res.kind = "Err" ->
                Reply("UNAVAILABLE", None,
                      BoardEvent("create_board_event", None,
                                 Some(data.project_id), EventError("Unavailable")),
                      d2, 1)
           [] OTHER -> Panic(d2, 1)

delete_board(data, d, fault) ==
    IF fault = "pool" THEN Panic(d, 0)
    ELSE LET r == Board_delete(data.board_id, d.boards, fault)
             d2 == [d EXCEPT !.boards = r.table]
         IN
         CASE r.res.kind = "Ok" ->
                LET brd == Unwrap(r.res.val) IN
                Reply("OK", Some(ProtoBoard(brd)),
                      BoardEvent("delete_board_event", Some(brd.id),
                                 Some(brd.project_id), None), d2, 0)
           [] r.res.kind = "Err" /\ r.res.err = "NotFound" ->
                Reply("NOT_FOUND", None,
                      BoardEvent("delete_board_event", Some(data.board_id),
                                 None, EventError("NotFound")), d2, 0)
           [] r.res.kind = "Err" /\ r.res.err # "NotFound" ->
                Reply("UNAVAILABLE", None,
                      BoardEvent("delete_board_event", Some(data.board_id),
                                 None, EventError("Unavailable")), d2, 0)
           [] OTHER -> Panic(d2, 0)

\* ------------------------------------------------- the three match shapes
\* vec.first(), mapped through Queryable; read only where a row was found.
Found(result, cols, fields) == Queryable(result.rows[1], cols, fields)

\* The value inside Ok(..); read only in the Ok arm.
Val(r) == Unwrap(r.res.val)

\* match result { Ok(vec) => if let Some(x) = vec.first() {..} else {..},
\*                Err(err) => {..} }
\* body and evOk are what the Some arm builds from the row found.
MatchLoad(result, d, body, evOk, evNotFound, evUnavailable) ==
    IF result.kind = "Ok"
    THEN IF result.rows # <<>>
         THEN Reply("OK", Some(body), evOk, d, 0)
         ELSE Reply("NOT_FOUND", None, evNotFound, d, 0)
    ELSE Reply("UNAVAILABLE", None, evUnavailable, d, 0)

\* match X::create(..).await { Ok(x) => {..}, Err(err) => {..} }
MatchCreate(r, d, body, evOk, evUnavailable) ==
    CASE r.res.kind = "Ok" -> Reply("OK", Some(body), evOk, d, 1)
      [] r.res.kind = "Err" -> Reply("UNAVAILABLE", None, evUnavailable, d, 1)
      [] OTHER -> Panic(d, 1)

\* match X::update(..).await or X::delete(..).await
\*     { Ok(x) => {..}, Err(err) => if err == NotFound {..} else {..} }
MatchWrite(r, d, body, evOk, evNotFound, evUnavailable) ==
    CASE r.res.kind = "Ok" -> Reply("OK", Some(body), evOk, d, 0)
      [] r.res.kind = "Err" /\ r.res.err = "NotFound" ->
           Reply("NOT_FOUND", None, evNotFound, d, 0)
      [] r.res.kind = "Err" /\ r.res.err # "NotFound" ->
           Reply("UNAVAILABLE", None, evUnavailable, d, 0)
      [] OTHER -> Panic(d, 0)

\* ----------------------------------------------------- controllers: columns
ProtoColumn(c) == [id |-> c.id, board_id |-> c.board_id, name |-> c.name]
ColumnEvent(method, cid, bid, name, error) ==
    [method |-> method,
     entity |-> Some([id |-> cid, board_id |-> bid, name |-> name]),
     error |-> error]
ColumnEventOk(method, c) ==
    ColumnEvent(method, Some(c.id), Some(c.board_id), Some(c.name), None)

get_column_by_id(data, d, fault) ==
    IF fault = "pool" THEN Panic(d, 0)
    ELSE LET result == LoadById(d.columns, data.column_id, fault)
             c == Found(result, ColumnsColumns, ColumnFields)
         IN  MatchLoad(result, d, ProtoColumn(c), ColumnEventOk("get_column_by_id_event", c),
                   ColumnEvent("get_column_by_id_event", Some(data.column_id),
                               None, None, EventError("NotFound")),
                   ColumnEvent("get_column_by_id_event", Some(data.column_id),
                               None, None, EventError("Unavailable")))

create_column(data, d, fault, uuid) ==
    IF fault = "pool" THEN Panic(d, 0)
    ELSE LET new_column == [id |-> uuid, board_id |-> data.board_id,
                            name |-> data.column_name]
             r == Column_create(new_column, d.columns, fault)
         IN  MatchCreate(r, [d EXCEPT !.columns = r.table], ProtoColumn(Val(r)),
                         ColumnEventOk("create_column_event", Val(r)),
                         ColumnEvent("create_column_event", None,
                                     Some(data.board_id), Some(data.column_name),
                                     EventError("Unavailable")))

update_column(data, d, fault) ==
    IF fault = "pool" THEN Panic(d, 0)
    ELSE LET change_set == [name |-> Some(data.column_name)]
             r == Column_update(data.column_id, change_set, d.columns, fault)
         IN  MatchWrite(r, [d EXCEPT !.columns = r.table], ProtoColumn(Val(r)),
                        ColumnEventOk("update_column_event", Val(r)),
                        ColumnEvent("update_column_event", Some(data.column_id),
                                    None, Some(data.column_name),
                                    EventError("NotFound")),
                        ColumnEvent("update_column_event", Some(data.column_id),
                                    None, Some(data.column_name),
                                    EventError("Unavailable")))

delete_column(data, d, fault) ==
    IF fault = "pool" THEN Panic(d, 0)
    ELSE LET r == Column_delete(data.column_id, d.columns, fault) IN
         MatchWrite(r, [d EXCEPT !.columns = r.table], ProtoColumn(Val(r)),
                    ColumnEventOk("delete_column_event", Val(r)),
                    ColumnEvent("delete_column_event", Some(data.column_id),
                                None, None, EventError("NotFound")),
                    ColumnEvent("delete_column_event", Some(data.column_id),
                                None, None, EventError("Unavailable")))

\* ------------------------------------------------------ controllers: issues
ProtoIssue(i) ==
    [id |-> i.id, column_id |-> i.column_id, epic_id |-> i.epic_id,
     title |-> i.title, description |-> i.description]
IssueEvent(method, iid, cid, eid, title, description, error) ==
    [method |-> method,
     entity |-> Some([id |-> iid, column_id |-> cid, epic_id |-> eid,
                      title |-> title, description |-> description]),
     error |-> error]
IssueEventOk(method, i) ==
    IssueEvent(method, Some(i.id), Some(i.column_id), Some(i.epic_id),
               Some(i.title), Some(i.description), None)

get_issue_by_id(data, d, fault) ==
    IF fault = "pool" THEN Panic(d, 0)
    ELSE LET result == LoadById(d.issues, data.issue_id, fault)
             i == Found(result, IssuesColumns, IssueFields)
         IN  MatchLoad(result, d, ProtoIssue(i), IssueEventOk("get_issue_by_id_event", i),
                   IssueEvent("get_issue_by_id_event", Some(data.issue_id),
                              None, None, None, None, EventError("NotFound")),
                   IssueEvent("get_issue_by_id_event", Some(data.issue_id),
                              None, None, None, None, EventError("Unavailable")))

create_issue(data, d, fault, uuid) ==
    IF fault = "pool" THEN Panic(d, 0)
    ELSE LET new_issue == [id |-> uuid, column_id |-> data.column_id,
                           epic_id |-> data.epic_id, title |-> data.title,
                           description |-> data.description]
             r == Issue_create(new_issue, d.issues, fault)
         IN  MatchCreate(r, [d EXCEPT !.issues = r.table], ProtoIssue(Val(r)),
                         IssueEventOk("create_issue_event", Val(r)),
                         IssueEvent("create_issue_event", None,
                                    Some(data.column_id), Some(data.epic_id),
                                    Some(data.title), Some(data.description),
                                    EventError("Unavailable")))

update_issue(data, d, fault) ==
    IF fault = "pool" THEN Panic(d, 0)
    ELSE LET change_set == [column_id |-> data.column_id, epic_id |-> data.epic_id,
                            title |-> data.title, description |-> data.description]
             r == Issue_update(data.issue_id, change_set, d.issues, fault)
         IN  MatchWrite(r, [d EXCEPT !.issues = r.table], ProtoIssue(Val(r)),
                        IssueEventOk("update_issue_event", Val(r)),
                        IssueEvent("update_issue_event", Some(data.issue_id),
                                   data.column_id, data.epic_id, data.title,
                                   data.description, EventError("NotFound")),
                        IssueEvent("update_issue_event", Some(data.issue_id),
                                   data.column_id, data.epic_id, data.title,
                                   data.description, EventError("Unavailable")))

delete_issue(data, d, fault) ==
    IF fault = "pool" THEN Panic(d, 0)
    ELSE LET r == Issue_delete(data.issue_id, d.issues, fault) IN
         MatchWrite(r, [d EXCEPT !.issues = r.table], ProtoIssue(Val(r)),
                    IssueEventOk("delete_issue_event", Val(r)),
                    IssueEvent("delete_issue_event", Some(data.issue_id),
                               None, None, None, None, EventError("NotFound")),
                    IssueEvent("delete_issue_event", Some(data.issue_id),
                               None, None, None, None, EventError("Unavailable")))

\* ------------------------------------------------ controllers: dependencies
ProtoDependency(x) ==
    [id |-> x.id, blocking_epic_id |-> x.blocking_epic_id,
     blocked_epic_id |-> x.blocked_epic_id]
DependencyEvent(method, did, blocking, blocked, error) ==
    [method |-> method,
     entity |-> Some([id |-> did, blocking_epic_id |-> blocking,
                      blocked_epic_id |-> blocked]),
     error |-> error]
DependencyEventOk(method, x) ==
    DependencyEvent(method, Some(x.id), Some(x.blocking_epic_id),
                    Some(x.blocked_epic_id), None)

get_dependency_by_id(data, d, fault) ==
    IF fault = "pool" THEN Panic(d, 0)
    ELSE LET result == LoadById(d.dependencies, data.dependency_id, fault)
             x == Found(result, DependenciesColumns, DependencyFields)
         IN  MatchLoad(result, d, ProtoDependency(x), DependencyEventOk("get_dependency_by_id_event", x),
                   DependencyEvent("get_dependency_by_id_event",
                                   Some(data.dependency_id), None, None,
                                   EventError("NotFound")),
                   DependencyEvent("get_dependency_by_id_event",
                                   Some(data.dependency_id), None, None,
                                   EventError("Unavailable")))

create_dependency(data, d, fault, uuid) ==
    IF fault = "pool" THEN Panic(d, 0)
    ELSE LET new_dependency == [id |-> uuid,
                                blocking_epic_id |-> data.blocking_epic_id,
                                blocked_epic_id |-> data.blocked_epic_id]
             r == Dependency_create(new_dependency, d.dependencies, fault)
         IN  MatchCreate(r, [d EXCEPT !.dependencies = r.table], ProtoDependency(Val(r)),
                         DependencyEventOk("create_dependency_event", Val(r)),
                         DependencyEvent("create_dependency_event", None,
                                         Some(data.blocking_epic_id),
                                         Some(data.blocked_epic_id),
                                         EventError("Unavailable")))

delete_dependency(data, d, fault) ==
    IF fault = "pool" THEN Panic(d, 0)
    ELSE LET r == Dependency_delete(data.dependency_id, d.dependencies, fault) IN
         MatchWrite(r, [d EXCEPT !.dependencies = r.table], ProtoDependency(Val(r)),
                    DependencyEventOk("delete_dependency_event", Val(r)),
                    DependencyEvent("delete_dependency_event",
                                    Some(data.dependency_id), None, None,
                                    EventError("NotFound")),
                    DependencyEvent("delete_dependency_event",
                                    Some(data.dependency_id), None, None,
                                    EventError("Unavailable")))

\* ------------------------------------------------------- controllers: epics
\* NaiveDateTime::from_timestamp(seconds, nanos)
FromTimestamp(seconds, nanos) == [secs |-> seconds, nsecs |-> nanos]

\* Timestamp { seconds: x.timestamp(), nanos: x.timestamp_subsec_nanos() }
ToTimestamp(x) == [seconds |-> x.secs, nanos |-> x.nsecs]

\* NaiveDateTime::to_string
DateToString(x) == [text |-> x]

\* The body of get_epic_by_id and delete_epic: dates read from the row.
ProtoEpic(ep) ==
    [id |-> ep.id, column_id |-> ep.column_id, assignee_id |-> ep.assignee_id,
     reporter_id |-> ep.reporter_id, name |-> ep.name,
     description |-> ep.description,
     start_date |-> Some(ToTimestamp(ep.start_date)),
     due_date |-> Some(ToTimestamp(ep.due_date))]

\* The body of create_epic and update_epic: dates taken from the request.
ProtoEpicDated(ep, start, due) ==
    [id |-> ep.id, column_id |-> ep.column_id, assignee_id |-> ep.assignee_id,
     reporter_id |-> ep.reporter_id, name |-> ep.name,
     description |-> ep.description,
     start_date |-> Some(ToTimestamp(start)),
     due_date |-> Some(ToTimestamp(due))]

EpicEvent(method, eid, cid, assignee, reporter, name, descr, start, due, error) ==
    [method |-> method,
     entity |-> Some([id |-> eid, column_id |-> cid, assignee_id |-> assignee,
                      reporter_id |-> reporter, name |-> name,
                      description |-> descr, start_date |-> start,
                      due_date |-> due]),
     error |-> error]
\* An event that reads the two text columns the other way round than the
\* response does.
EpicEventOkSwapped(method, ep) ==
    EpicEvent(method, Some(ep.id), Some(ep.column_id), ep.assignee_id,
              Some(ep.name), Some(ep.reporter_id), ep.description,
              Some(DateToString(ep.start_date)), Some(DateToString(ep.due_date)),
              None)

EpicEventOk(method, ep) ==
    EpicEvent(method, Some(ep.id), Some(ep.column_id), ep.assignee_id,
              Some(ep.reporter_id), Some(ep.name), ep.description,
              Some(DateToString(ep.start_date)), Some(DateToString(ep.due_date)),
              None)
EpicEventId(method, eid, code) ==
    EpicEvent(method, Some(eid), None, None, None, None, None, None, None,
              EventError(code))

get_epic_by_id(data, d, fault) ==
    IF fault = "pool" THEN Panic(d, 0)
    ELSE LET result == LoadById(d.epics, data.epic_id, fault)
             ep == Found(result, EpicsColumns, EpicFields)
         IN  MatchLoad(result, d, ProtoEpic(ep), EpicEventOk("get_epic_by_id_event", ep),
                   EpicEventId("get_epic_by_id_event", data.epic_id, "NotFound"),
                   EpicEventId("get_epic_by_id_event", data.epic_id, "Unavailable"))

\* let col_id = match data.column_id.clone() { Some(c) => c, None => first
\* column of the table }: Ok(id), or a panic when the load fails or finds none.
DefaultColumn(data, d, fault) ==
    IF IsSome(data.column_id) THEN Ok(Unwrap(data.column_id))
    ELSE LET result == Expect(IF fault = "db" THEN Failed("DatabaseError", d.columns)
                              ELSE Rows(Limit(d.columns, 1), d.columns))
             column == FirstUnwrap(result, ColumnsColumns, ColumnFields)
         IN  IF column.res.kind = "Ok" THEN Ok(Unwrap(column.res.val).id)
             ELSE Panicked

create_epic(data, d, fault, uuid) ==
    IF fault = "pool" THEN Panic(d, 0)
    ELSE LET col_id == DefaultColumn(data, d, fault) IN
    IF col_id.kind # "Ok" THEN Panic(d, 0)
    ELSE IF data.start_date = None \/ data.due_date = None THEN Panic(d, 0)
    ELSE LET start == FromTimestamp(Unwrap(data.start_date).seconds, 0)
             due == FromTimestamp(Unwrap(data.due_date).seconds, 0)
             new_epic == [id |-> uuid, column_id |-> Unwrap(col_id.val),
                          assignee_id |-> data.assignee_id,
                          reporter_id |-> data.reporter_id, name |-> data.name,
                          description |-> data.description,
                          start_date |-> start, due_date |-> due]
             r == Epic_create(new_epic, d.epics, fault)
         IN  MatchCreate(r, [d EXCEPT !.epics = r.table],
                         ProtoEpicDated(Val(r), start, due),
                         EpicEventOk("create_epic_event", Val(r)),
                         EpicEvent("create_epic_event", None, data.column_id,
                                   data.assignee_id, Some(data.reporter_id),
                                   Some(data.name), data.description,
                                   Some(DateToString(start)),
                                   Some(DateToString(due)),
                                   EventError("Unavailable")))

update_epic(data, d, fault) ==
    IF fault = "pool" THEN Panic(d, 0)
    ELSE IF data.start_date = None \/ data.due_date = None THEN Panic(d, 0)
    ELSE LET start == FromTimestamp(Unwrap(data.start_date).seconds, 0)
             due == FromTimestamp(Unwrap(data.due_date).seconds, 0)
             change_set == [column_id |-> data.column_id,
                            assignee_id |-> data.assignee_id,
                            name |-> data.name,
                            reporter_id |-> data.reporter_id,
                            description |-> data.description,
                            start_date |-> Some(start),
                            due_date |-> Some(due)]
             r == Epic_update(data.epic_id, change_set, d.epics, fault)
             EvErr(code) ==
                 EpicEvent("update_epic_event", Some(data.epic_id),
                           data.column_id, data.assignee_id, data.reporter_id,
                           data.name, data.description,
                           Some(DateToString(start)), Some(DateToString(due)),
                           EventError(code))
         IN  MatchWrite(r, [d EXCEPT !.epics = r.table],
                        ProtoEpicDated(Val(r), start, due),
                        EpicEventOk("update_epic_event", Val(r)),
                        EvErr("NotFound"), EvErr("Unavailable"))

delete_epic(data, d, fault) ==
    IF fault = "pool" THEN Panic(d, 0)
    ELSE LET r == Epic_delete(data.epic_id, d.epics, fault) IN
         MatchWrite(r, [d EXCEPT !.epics = r.table], ProtoEpic(Val(r)),
                    EpicEventOk("delete_epic_event", Val(r)),
                    EpicEventId("delete_epic_event", data.epic_id, "NotFound"),
                    EpicEventId("delete_epic_event", data.epic_id, "Unavailable"))

\* ------------------------------------------------------- search handlers
\* match ids.is_empty() { false => Some(&ids), true => None } and then
\* query.filter(id.eq_any(ids)) when Some.
EqAny(rows, ids) ==
    IF ids = <<>> THEN rows ELSE SelectSeq(rows, LAMBDA r : r.id \in Range(ids))

\* if let Some(v) = &opt { query = query.filter(col.eq(v)) }
FilterEq(rows, col, opt) ==
    IF IsSome(opt) THEN SelectSeq(rows, LAMBDA r : r[col] = Unwrap(opt)) ELSE rows

\* NaiveDateTime ordering
DateLe(x, y) == x.secs < y.secs \/ (x.secs = y.secs /\ x.nsecs <= y.nsecs)

\* The Option<NaiveDateTime> built from an optional Timestamp of the request.
OptDate(ts) ==
    IF IsSome(ts) THEN Some(FromTimestamp(Unwrap(ts).seconds, Unwrap(ts).nanos))
    ELSE None

\* if let Some(x) = .. { query = query.filter(col.ge(x)) }
FilterGe(rows, col, opt) ==
    IF IsSome(opt) THEN SelectSeq(rows, LAMBDA r : DateLe(Unwrap(opt), r[col]))
    ELSE rows

\* if let Some(x) = .. { query = query.filter(col.le(x)) }
FilterLe(rows, col, opt) ==
    IF IsSome(opt) THEN SelectSeq(rows, LAMBDA r : DateLe(r[col], Unwrap(opt)))
    ELSE rows

\* query.limit(n) and query.offset(k) when supplied: OFFSET, then LIMIT.
LimitOffset(rows, limit, offset) ==
    LET k == IF IsSome(offset) THEN Unwrap(offset) ELSE 0
        skipped == SubSeq(rows, k + 1, Len(rows))
    IN  IF IsSome(limit) THEN Limit(skipped, Unwrap(limit)) ELSE skipped

\* A load that turns a store failure into an empty result.
LoadOrEmpty(rows, t, fault) ==
    IF fault = "db" THEN Rows(<<>>, t) ELSE Rows(rows, t)

\* query.load(conn)
Load(rows, t, fault) ==
    IF fault = "db" THEN Failed("DatabaseError", t) ELSE Rows(rows, t)

\* vec.iter().map(..).collect()
Map(cols, fields, rows) ==
    [i \in DOMAIN rows |-> Queryable(rows[i], cols, fields)]

SearchEvent(method, entities, error, params) ==
    [method |-> method, entities |-> entities, error |-> error,
     search_params |-> Some(params)]

\* Ok(Response::new(stream)): the handler returns the stream over `items` and
\* has spawned one task, which emits them and then publishes `event`.  The
\* body is the stream, not a message.
Streamed(items, event, d) ==
    [status |-> "OK", body |-> Some([stream |-> items]), spawned |-> <<>>, db |-> d,
     minted |-> 0, deferred |-> event]

\* The events of the Err arm name the ids asked for and nothing else.
search_columns(data, d, fault) ==
    IF fault = "pool" THEN Panic(d, 0)
    ELSE LET query == FilterEq(EqAny(d.columns, data.columns_ids),
                               "board_id", data.board_id)
             result == Load(query, d.columns, fault)
             vec == Map(ColumnsColumns, ColumnFields, result.rows)
         IN  IF result.kind = "Ok"
             THEN Streamed([i \in DOMAIN vec |-> ProtoColumn(vec[i])],
                      SearchEvent("search_columns_event",
                          [i \in DOMAIN vec |->
                              [id |-> Some(vec[i].id),
                               board_id |-> Some(vec[i].board_id),
                               name |-> Some(vec[i].name)]],
                          None, data), d)
             ELSE Reply("UNAVAILABLE", None,
                      SearchEvent("search_columns_event",
                          [i \in DOMAIN data.columns_ids |->
                              [id |-> Some(data.columns_ids[i]),
                               board_id |-> None, name |-> None]],
                          EventError("Unavailable"), data), d, 0)

search_issues(data, d, fault) ==
    IF fault = "pool" THEN Panic(d, 0)
    ELSE LET by_ids == EqAny(d.issues, data.issues_ids)
             by_column == FilterEq(by_ids, "column_id", data.column_id)
             by_epic == FilterEq(by_column, "column_id", data.epic_id)
             query == LimitOffset(by_epic, data.limit, data.offset)
             result == Load(query, d.issues, fault)
             vec == Map(IssuesColumns, IssueFields, result.rows)
         IN  IF result.kind = "Ok"
             THEN Streamed([i \in DOMAIN vec |-> ProtoIssue(vec[i])],
                      SearchEvent("search_issues_event",
                          [i \in DOMAIN vec |->
                              [id |-> Some(vec[i].id),
                               column_id |-> Some(vec[i].column_id),
                               epic_id |-> Some(vec[i].epic_id),
                               title |-> Some(vec[i].title),
                               description |-> Some(vec[i].description)]],
                          None, data), d)
             ELSE Reply("UNAVAILABLE", None,
                      SearchEvent("search_issues_event",
                          [i \in DOMAIN data.issues_ids |->
                              [id |-> Some(data.issues_ids[i]),
                               column_id |-> None, epic_id |-> None,
                               title |-> None, description |-> None]],
                          EventError("Unavailable"), data), d, 0)

search_dependencies(data, d, fault) ==
    IF fault = "pool" THEN Panic(d, 0)
    ELSE LET by_ids == EqAny(d.dependencies, data.dependencies_ids)
             by_blocking == FilterEq(by_ids, "blocking_epic_id",
                                     data.blocking_epic_id)
             query == FilterEq(by_blocking, "blocked_epic_id",
                               data.blocked_epic_id)
             result == Load(query, d.dependencies, fault)
             vec == Map(DependenciesColumns, DependencyFields, result.rows)
         IN  IF result.kind = "Ok"
             THEN Streamed([i \in DOMAIN vec |-> ProtoDependency(vec[i])],
                      SearchEvent("search_dependencies_event",
                          [i \in DOMAIN vec |->
                              [id |-> Some(vec[i].id),
                               blocking_epic_id |-> Some(vec[i].blocking_epic_id),
                               blocked_epic_id |-> Some(vec[i].blocked_epic_id)]],
                          None, data), d)
             ELSE Reply("UNAVAILABLE", None,
                      SearchEvent("search_dependencies_event",
                          [i \in DOMAIN data.dependencies_ids |->
                              [id |-> Some(data.dependencies_ids[i]),
                               blocking_epic_id |-> None,
                               blocked_epic_id |-> None]],
                          EventError("Unavailable"), data), d, 0)

search_epics(data, d, fault) ==
    IF fault = "pool" THEN Panic(d, 0)
    ELSE LET by_ids == EqAny(d.epics, data.epics_ids)
             by_column == FilterEq(by_ids, "column_id", data.column_id)
             by_start == FilterGe(by_column, "start_date",
                                  OptDate(data.min_start_date))
             by_due == FilterLe(by_start, "start_date",
                                OptDate(data.max_due_date))
             query == LimitOffset(by_due, data.limit, data.offset)
             result == Load(query, d.epics, fault)
             vec == Map(EpicsColumns, EpicFields, result.rows)
         IN  IF result.kind = "Ok"
             THEN Streamed([i \in DOMAIN vec |-> ProtoEpic(vec[i])],
                      SearchEvent("search_epics_event",
                          [i \in DOMAIN vec |->
                              EpicEventOk("search_epics_event", vec[i]).entity],
                          None, data), d)
             ELSE Reply("UNAVAILABLE", None,
                      SearchEvent("search_epics_event",
                          [i \in DOMAIN data.epics_ids |->
                              EpicEventId("search_epics_event", data.epics_ids[i],
                                          "Unavailable").entity],
                          EventError("Unavailable"), data), d, 0)

\* ------------------------------------------------------------ the machine
\* A handler that awaits the publish and returns its error to the caller.
AwaitPublish(out, b) ==
    IF out.spawned # <<>> /\ b # "up"
    THEN [out EXCEPT !.status = "UNAVAILABLE", !.body = None]
    ELSE out

\* tokio::spawn(async move { service.<op>_event(req).await; }): the handler
\* drops the JoinHandle and goes on to its return, whatever the bus does.
TokioSpawn(out, b) == out

\* The spawned task: one call to the event bus, its result discarded.
RunPublish(task, b) ==
    [task EXCEPT !.attempts = @ + 1,
                 !.outcome = (CASE b = "up" -> "delivered"
                                [] b = "failing" -> "rpc_error"
                                [] OTHER -> "transport_error"),
                 !.done = TRUE]

\* No Search stream is open.
NoStream ==
    [pc |-> "none", items |-> <<>>, chan |-> <<>>, rx |-> "none", got |-> <<>>,
     ended |-> FALSE, published |-> 0, matched |-> <<>>]

\* A handler that hands every item to the consumer before it returns.
OpenedDrained(items) ==
    [pc |-> "awaiting", items |-> <<>>, chan |-> <<>>, rx |-> "open",
     got |-> items, ended |-> FALSE, published |-> 1, matched |-> items]

\* let mut stream = tokio_stream::iter(items);
\* let (sender, receiver) = mpsc::channel(1); tokio::spawn(..)
Opened(items) ==
    [pc |-> "loop", items |-> items, chan |-> <<>>, rx |-> "open", got |-> <<>>,
     ended |-> FALSE, published |-> 0, matched |-> items]

\* An emission task that submits its event at once.
EmitEager(st) == [st EXCEPT !.pc = "awaiting", !.published = @ + 1]

\* An emission task that goes on to the next item when a handoff fails.
EmitOn(st) ==
    IF st.items = <<>>
    THEN [st EXCEPT !.pc = "awaiting", !.published = @ + 1]
    ELSE [st EXCEPT !.items = Tail(@),
                    !.chan = IF st.rx = "open" THEN <<Head(st.items)>> ELSE <<>>]

\* An emission task that takes the items from the back of the list.
EmitReversed(st) ==
    IF st.items = <<>> \/ st.rx = "dropped"
    THEN [st EXCEPT !.pc = "awaiting", !.published = @ + 1]
    ELSE [st EXCEPT !.items = SubSeq(@, 1, Len(@) - 1),
                    !.chan = <<st.items[Len(st.items)]>>]

\* The emission task, from one suspension to the next:
\*   while let Some(x) = stream.next().await {
\*       match sender.send(Ok(x)).await { Ok(_) => {}, Err(_) => break } }
\*   service.search_.._event(req).await;
\* A handoff fails when the receiver is gone; otherwise it takes the one free
\* slot of the channel.  When the loop is over the event is submitted.
Emit(st) ==
    IF st.items = <<>> \/ st.rx = "dropped"
    THEN [st EXCEPT !.pc = "awaiting", !.published = @ + 1]
    ELSE [st EXCEPT !.items = Tail(@), !.chan = <<Head(st.items)>>]

\* The task ends when the publish call returns; the sender, which the task
\* owns, is dropped with it.
TaskEnds(st, b) == [st EXCEPT !.pc = "done"]

NoCall ==
    [table |-> "", op |-> "", id |-> "", req |-> <<>>, fault |-> "none",
     bus |-> "", status |-> "", body |-> None, events |-> <<>>, conns |-> 0,
     ops |-> <<>>]

\* The statements a handler sends to the store, in order.  Every handler
\* has one, after pool.get(), but two of the epics controller: create_epic
\* first loads the first column when the request names none, and both
\* create_epic and update_epic get to their statement only past the unwrap
\* of the two dates.
StoreOps(table, op, data, d, fault) ==
    LET kind == CASE op = "Create" -> "insert"
                  [] op = "Update" -> "update"
                  [] op = "Delete" -> "delete"
                  [] OTHER -> "load"
        dated == IsSome(data.start_date) /\ IsSome(data.due_date)
    IN  IF fault = "pool" THEN <<>>
        ELSE IF table = "epics" /\ op = "Create"
        THEN (IF IsSome(data.column_id) THEN <<>> ELSE <<<<"load", "columns">>>>)
             \o (IF DefaultColumn(data, d, fault).kind = "Ok" /\ dated
                 THEN <<<<"insert", "epics">>>> ELSE <<>>)
        ELSE IF table = "epics" /\ op = "Update" /\ ~dated THEN <<>>
        ELSE <<<<kind, table>>>>

\* ------------------------------------------------------ pooled connections
\* let db_connection = self.pool.get().expect("Db error"): one connection
\* leaves the pool, or the handler panics holding none.
PoolGet(fault) == IF fault = "pool" THEN 0 ELSE 1

\* What the `async move` block of a spawned task takes with it.
PublishTask == {"service", "req"}

\* An emission task that takes the handler's connection with it.
EmissionTaskWithConnection ==
    {"stream", "sender", "service", "req", "db_connection"}

EmissionTask == {"stream", "sender", "service", "req"}

\* The connections a task owns until it ends.
Owned(task) == IF "db_connection" \in task THEN 1 ELSE 0

\* A handler that forgets its connection instead of dropping it.
NeverReturned(got, tasks) == got

\* The connections of a call that are still out when the call is over.
\* db_connection is a local of the handler, or of the repo function it was
\* moved into: it is dropped, and so returned to the pool, when that scope
\* is left by a return or by unwinding, unless a spawned task took it.
AtReturn(got, tasks) ==
    IF got = 1 /\ \E t \in tasks : Owned(t) = 1 THEN 1 ELSE 0

Init ==
    /\ phase = "starting"
    /\ service \in Tables
    /\ db = [t \in Tables |-> <<>>]
    /\ nextId = 1
    /\ everCreated = {}
    /\ fresh = <<>>
    /\ pending = <<>>
    /\ last = NoCall
    /\ twin = [status |-> "", body |-> None]
    /\ stream = NoStream
    /\ checkedOut = 0
    /\ inflight = FALSE

\* main: the event-bus clients connect before the server starts; a failed
\* connect ends the process.
Main ==
    /\ phase = "starting"
    /\ \E bus \in BusStates :
           phase' = IF bus = "unreachable" THEN "exited" ELSE "serving"
    /\ UNCHANGED <<service, db, nextId, everCreated, fresh, pending, last, twin,
                   stream, checkedOut, inflight>>

\* A spawned publish task runs.
Publish ==
    /\ pending # <<>>
    /\ \E bus \in BusStates :
           LET task == RunPublish(Head(pending), bus) IN
           /\ pending' = IF task.done THEN Tail(pending)
                         ELSE <<task>> \o Tail(pending)
           /\ checkedOut' = IF task.done THEN checkedOut - Owned(PublishTask)
                            ELSE checkedOut
    /\ UNCHANGED <<phase, service, db, nextId, everCreated, fresh, last, twin,
                   stream, inflight>>

\* One call served: `out` is what the handler computed.  The handler's
\* return hands the response to the transport; the next call, of this caller
\* or of another, can be served before that response has arrived.
Handled(table, op, id, req, fault, out) ==
    /\ phase = "serving"
    /\ inflight' = TRUE
    /\ service = table \/ (service = "epics" /\ table = "columns" /\ op = "Create")
    /\ stream = NoStream
    /\ Len(pending) + Len(out.spawned) <= MaxPending
    /\ \E bus \in BusStates :
           LET seen == TokioSpawn(out, bus)
               ref == TokioSpawn(out, "up")
           IN  /\ last' = [table |-> table, op |-> op, id |-> id, req |-> req,
                           fault |-> fault, bus |-> bus, status |-> seen.status,
                           body |-> seen.body, events |-> out.spawned,
                           conns |-> PoolGet(fault),
                           ops |-> StoreOps(table, op, req, db, fault)]
               /\ twin' = [status |-> ref.status, body |-> ref.body]
    /\ checkedOut' = checkedOut +
                       AtReturn(PoolGet(fault),
                                {PublishTask : i \in DOMAIN out.spawned})
    /\ db' = out.db
    /\ nextId' = nextId + out.minted
    /\ everCreated' = everCreated \cup
                        {<<t, out.db[t][i].id>> : <<t, i>> \in
                            {<<t2, i2>> \in Tables \X (1..MaxIds + 1) :
                                i2 \in DOMAIN out.db[t2]}}
    /\ fresh' =
         IF out.status # "OK" \/ op \notin {"Create", "Update", "Delete"} THEN fresh
         ELSE IF op = "Create"
         THEN fresh @@ (id :> [table |-> table, body |-> Unwrap(out.body)])
         ELSE [i \in DOMAIN fresh \ {id} |-> fresh[i]]
    /\ pending' = pending \o
                    [i \in 1..Len(out.spawned) |->
                        [attempts |-> 0, outcome |-> "", done |-> FALSE]]
    /\ UNCHANGED <<phase, service, stream>>

GetBoardById ==
    \E board_id \in Ids, fault \in Faults :
        LET data == [board_id |-> board_id] IN
        Handled("boards", "GetById", board_id, data, fault,
                get_board_by_id(data, db, fault))

GetBoardByProjectId ==
    \E project_id \in Str, fault \in Faults :
        LET data == [project_id |-> project_id] IN
        Handled("boards", "GetByProjectId", "", data, fault,
                get_board_by_project_id(data, db, fault))

CreateBoard ==
    \E project_id \in Str, fault \in Faults :
        /\ nextId <= MaxIds
        /\ LET data == [project_id |-> project_id] IN
           Handled("boards", "Create", Uuid(nextId), data, fault,
                   create_board(data, db, fault, Uuid(nextId)))

DeleteBoard ==
    \E board_id \in Ids, fault \in Faults :
        LET data == [board_id |-> board_id] IN
        Handled("boards", "Delete", board_id, data, fault,
                delete_board(data, db, fault))

\* ---------------------------------------------------------------- requests
\* The requests the clients send.  A proto3 string field left out of the
\* message decodes as ""; an optional field left out decodes as None.
Timestamp(seconds, nanos) == [seconds |-> seconds, nanos |-> nanos]

BoardIdAndColumnName == {[board_id |-> "a", column_name |-> "a"]}
ColumnIdAndName == [column_id : Ids, column_name : {"", "b"}]
CreateIssueRequest ==
    {[column_id |-> "a", epic_id |-> "b", title |-> "a", description |-> "a"]}
IssueChanges ==
    {[column_id |-> None, epic_id |-> None, title |-> None, description |-> None],
     [column_id |-> None, epic_id |-> None, title |-> Some("b"),
      description |-> None],
     [column_id |-> Some("b"), epic_id |-> Some("a"), title |-> Some("b"),
      description |-> Some("b")]}
UpdateIssueRequest ==
    {[issue_id |-> i] @@ c : i \in Ids, c \in IssueChanges}
EpicFull ==
    [column_id |-> Some("a"), assignee_id |-> Some("a"), reporter_id |-> "b",
     name |-> "a", description |-> None,
     start_date |-> Some(Timestamp(1, 5)), due_date |-> Some(Timestamp(3, 0))]
CreateEpicRequest ==
    {EpicFull,
     [EpicFull EXCEPT !.column_id = None, !.assignee_id = None],
     [EpicFull EXCEPT !.start_date = None],
     [EpicFull EXCEPT !.due_date = None]}
EpicDates ==
    [column_id |-> None, assignee_id |-> None, name |-> None,
     reporter_id |-> None, description |-> None,
     start_date |-> Some(Timestamp(2, 0)), due_date |-> Some(Timestamp(3, 0))]
EpicChanges ==
    {EpicDates,
     [EpicDates EXCEPT !.name = Some("c"), !.description = Some("b")],
     [EpicDates EXCEPT !.start_date = None],
     [EpicDates EXCEPT !.due_date = None],
     [EpicDates EXCEPT !.start_date = None, !.due_date = None]}
UpdateEpicRequest ==
    {[epic_id |-> i] @@ c : i \in Ids, c \in EpicChanges}
CreateDependencyRequest == [blocking_epic_id : Str, blocked_epic_id : {"a"}]

GetColumnById ==
    \E column_id \in Ids, fault \in Faults :
        LET data == [column_id |-> column_id] IN
        Handled("columns", "GetById", column_id, data, fault,
                get_column_by_id(data, db, fault))

CreateColumn ==
    \E data \in BoardIdAndColumnName, fault \in Faults :
        /\ nextId <= MaxIds
        /\ Handled("columns", "Create", Uuid(nextId), data, fault,
                   create_column(data, db, fault, Uuid(nextId)))

UpdateColumn ==
    \E data \in ColumnIdAndName, fault \in Faults :
        Handled("columns", "Update", data.column_id, data, fault,
                update_column(data, db, fault))

DeleteColumn ==
    \E column_id \in Ids, fault \in Faults :
        LET data == [column_id |-> column_id] IN
        Handled("columns", "Delete", column_id, data, fault,
                delete_column(data, db, fault))

GetIssueById ==
    \E issue_id \in Ids, fault \in Faults :
        LET data == [issue_id |-> issue_id] IN
        Handled("issues", "GetById", issue_id, data, fault,
                get_issue_by_id(data, db, fault))

CreateIssue ==
    \E data \in CreateIssueRequest, fault \in Faults :
        /\ nextId <= MaxIds
        /\ Handled("issues", "Create", Uuid(nextId), data, fault,
                   create_issue(data, db, fault, Uuid(nextId)))

UpdateIssue ==
    \E data \in UpdateIssueRequest, fault \in Faults :
        Handled("issues", "Update", data.issue_id, data, fault,
                update_issue(data, db, fault))

DeleteIssue ==
    \E issue_id \in Ids, fault \in Faults :
        LET data == [issue_id |-> issue_id] IN
        Handled("issues", "Delete", issue_id, data, fault,
                delete_issue(data, db, fault))

GetEpicById ==
    \E epic_id \in Ids, fault \in Faults :
        LET data == [epic_id |-> epic_id] IN
        Handled("epics", "GetById", epic_id, data, fault,
                get_epic_by_id(data, db, fault))

CreateEpic ==
    \E data \in CreateEpicRequest, fault \in Faults :
        /\ nextId <= MaxIds
        /\ Handled("epics", "Create", Uuid(nextId), data, fault,
                   create_epic(data, db, fault, Uuid(nextId)))

UpdateEpic ==
    \E data \in UpdateEpicRequest, fault \in Faults :
        Handled("epics", "Update", data.epic_id, data, fault,
                update_epic(data, db, fault))

DeleteEpic ==
    \E epic_id \in Ids, fault \in Faults :
        LET data == [epic_id |-> epic_id] IN
        Handled("epics", "Delete", epic_id, data, fault,
                delete_epic(data, db, fault))

GetDependencyById ==
    \E dependency_id \in Ids, fault \in Faults :
        LET data == [dependency_id |-> dependency_id] IN
        Handled("dependencies", "GetById", dependency_id, data, fault,
                get_dependency_by_id(data, db, fault))

CreateDependency ==
    \E data \in CreateDependencyRequest, fault \in Faults :
        /\ nextId <= MaxIds
        /\ Handled("dependencies", "Create", Uuid(nextId), data, fault,
                   create_dependency(data, db, fault, Uuid(nextId)))

DeleteDependency ==
    \E dependency_id \in Ids, fault \in Faults :
        LET data == [dependency_id |-> dependency_id] IN
        Handled("dependencies", "Delete", dependency_id, data, fault,
                delete_dependency(data, db, fault))

\* ------------------------------------------------------------------ search
\* One Search call served.  The client opens one stream at a time, once the
\* response of its last unary call has arrived, and makes no other call
\* while it is open: the emission task touches the channel
\* only, so its steps commute with every handler.  The handler consults the
\* bus only through a publish it spawns itself.
Searched(table, req, fault, out) ==
    /\ phase = "serving"
    /\ ~inflight
    /\ UNCHANGED inflight
    /\ service = table
    /\ stream = NoStream
    /\ Len(pending) + Len(out.spawned) <= MaxPending
    /\ \E bus \in (IF out.spawned = <<>> THEN {"up"} ELSE BusStates) :
           LET seen == TokioSpawn(out, bus)
               ref == TokioSpawn(out, "up")
           IN  /\ last' = [table |-> table, op |-> "Search", id |-> "",
                           req |-> req, fault |-> fault, bus |-> bus,
                           status |-> seen.status, body |-> seen.body,
                           events |-> out.spawned, conns |-> PoolGet(fault),
                           ops |-> StoreOps(table, "Search", req, db, fault)]
               /\ twin' = [status |-> ref.status, body |-> ref.body]
    /\ checkedOut' = checkedOut +
                       AtReturn(PoolGet(fault),
                                {PublishTask : i \in DOMAIN out.spawned} \cup
                                (IF out.status = "OK" THEN {EmissionTask} ELSE {}))
    /\ stream' = IF out.status = "OK" THEN Opened(Unwrap(out.body).stream) ELSE NoStream
    /\ pending' = pending \o
                    [i \in 1..Len(out.spawned) |->
                        [attempts |-> 0, outcome |-> "", done |-> FALSE]]
    /\ UNCHANGED <<phase, service, db, nextId, everCreated, fresh>>

AnyColumn ==
    [columns_ids |-> <<>>, board_id |-> None, limit |-> None, offset |-> None]
SearchColumnsParams ==
    {AnyColumn,
     [AnyColumn EXCEPT !.columns_ids = <<Uuid(1)>>],
     [AnyColumn EXCEPT !.columns_ids = <<Uuid(2)>>, !.board_id = Some("a")],
     [AnyColumn EXCEPT !.limit = Some(1)],
     [AnyColumn EXCEPT !.offset = Some(1)]}

AnyIssue ==
    [issues_ids |-> <<>>, column_id |-> None, epic_id |-> None,
     limit |-> None, offset |-> None]
SearchIssuesParams ==
    {AnyIssue,
     [AnyIssue EXCEPT !.issues_ids = <<Uuid(1)>>],
     [AnyIssue EXCEPT !.column_id = Some("a")],
     [AnyIssue EXCEPT !.epic_id = Some("b")],
     [AnyIssue EXCEPT !.issues_ids = <<Uuid(2)>>, !.epic_id = Some("b")],
     [AnyIssue EXCEPT !.limit = Some(1)],
     [AnyIssue EXCEPT !.offset = Some(1)]}

AnyEpic ==
    [epics_ids |-> <<>>, column_id |-> None, min_start_date |-> None,
     max_due_date |-> None, limit |-> None, offset |-> None]
SearchEpicsParams ==
    {AnyEpic,
     [AnyEpic EXCEPT !.epics_ids = <<Uuid(1)>>],
     [AnyEpic EXCEPT !.epics_ids = <<Uuid(2)>>, !.column_id = Some("a")],
     [AnyEpic EXCEPT !.min_start_date = Some(Timestamp(2, 0))],
     [AnyEpic EXCEPT !.max_due_date = Some(Timestamp(2, 0))],
     [AnyEpic EXCEPT !.limit = Some(1)],
     [AnyEpic EXCEPT !.offset = Some(1)]}

AnyDependency ==
    [dependencies_ids |-> <<>>, blocking_epic_id |-> None,
     blocked_epic_id |-> None, limit |-> None, offset |-> None]
SearchDependenciesParams ==
    {AnyDependency,
     [AnyDependency EXCEPT !.dependencies_ids = <<Uuid(1)>>],
     [AnyDependency EXCEPT !.dependencies_ids = <<Uuid(2)>>,
                           !.blocking_epic_id = Some("b")],
     [AnyDependency EXCEPT !.blocked_epic_id = Some("a")],
     [AnyDependency EXCEPT !.limit = Some(1)],
     [AnyDependency EXCEPT !.offset = Some(1)]}

SearchColumns ==
    \E data \in SearchColumnsParams, fault \in Faults :
        Searched("columns", data, fault, search_columns(data, db, fault))

SearchIssues ==
    \E data \in SearchIssuesParams, fault \in Faults :
        Searched("issues", data, fault, search_issues(data, db, fault))

SearchEpics ==
    \E data \in SearchEpicsParams, fault \in Faults :
        Searched("epics", data, fault, search_epics(data, db, fault))

SearchDependencies ==
    \E data \in SearchDependenciesParams, fault \in Faults :
        Searched("dependencies", data, fault, search_dependencies(data, db, fault))

StreamStep(st) ==
    /\ stream' = st
    /\ UNCHANGED <<phase, service, db, nextId, everCreated, fresh, pending, last,
                   twin, checkedOut, inflight>>

\* An emission task whose send never waits for room in the channel.
EmitUnbounded ==
    /\ stream.pc = "loop"
    /\ StreamStep(Emit(stream))

\* The emission task runs: it is suspended in send while the channel is full
\* and the receiver is there.
EmitNext ==
    /\ stream.pc = "loop"
    /\ stream.items = <<>> \/ stream.rx = "dropped" \/ stream.chan = <<>>
    /\ StreamStep(Emit(stream))

\* The publish call of the emission task returns, with whatever result.
PublishReturns ==
    /\ stream.pc = "awaiting"
    /\ \E bus \in BusStates : stream' = TaskEnds(stream, bus)
    /\ checkedOut' = checkedOut - Owned(EmissionTask)
    /\ UNCHANGED <<phase, service, db, nextId, everCreated, fresh, pending, last,
                   twin, inflight>>

\* The consumer takes the item in the channel.
Receive ==
    /\ stream.rx = "open"
    /\ stream.chan # <<>>
    /\ StreamStep([stream EXCEPT !.got = @ \o stream.chan, !.chan = <<>>])

\* The consumer sees the end of the stream: the channel is empty and every
\* sender is dropped.
EndOfStream ==
    /\ stream.rx = "open"
    /\ ~stream.ended
    /\ stream.chan = <<>>
    /\ stream.pc = "done"
    /\ StreamStep([stream EXCEPT !.ended = TRUE])

\* The consumer goes away: the receiver is dropped, and what the channel
\* held with it.
Disconnect ==
    /\ stream.rx = "open"
    /\ ~stream.ended
    /\ StreamStep([stream EXCEPT !.rx = "dropped", !.chan = <<>>])

\* The stream is over on both sides.
Close ==
    /\ stream.pc = "done"
    /\ stream.ended \/ stream.rx = "dropped"
    /\ stream' = NoStream
    /\ UNCHANGED <<phase, service, db, nextId, everCreated, fresh, pending, last,
                   twin, checkedOut, inflight>>

\* A response that reaches the caller only once every publish task of the
\* process has run.
DeliverAfterPublish ==
    /\ inflight
    /\ pending = <<>>
    /\ inflight' = FALSE
    /\ UNCHANGED <<phase, service, db, nextId, everCreated, fresh, pending, last,
                   twin, stream, checkedOut>>

\* The transport writes the response of the call to the caller.  The handler
\* has returned it already: no task of the process is consulted.
Deliver ==
    /\ inflight
    /\ inflight' = FALSE
    /\ UNCHANGED <<phase, service, db, nextId, everCreated, fresh, pending, last,
                   twin, stream, checkedOut>>

Next ==
    \/ Main
    \/ Publish
    \/ Deliver
    \/ GetBoardById
    \/ GetBoardByProjectId
    \/ CreateBoard
    \/ DeleteBoard
    \/ GetColumnById
    \/ CreateColumn
    \/ UpdateColumn
    \/ DeleteColumn
    \/ GetIssueById
    \/ CreateIssue
    \/ UpdateIssue
    \/ DeleteIssue
    \/ GetEpicById
    \/ CreateEpic
    \/ UpdateEpic
    \/ DeleteEpic
    \/ GetDependencyById
    \/ CreateDependency
    \/ DeleteDependency
    \/ SearchColumns
    \/ SearchIssues
    \/ SearchEpics
    \/ SearchDependencies
    \/ EmitNext
    \/ PublishReturns
    \/ Receive
    \/ EndOfStream
    \/ Disconnect
    \/ Close

Spec == Init /\ [][Next]_vars

\* The scheduling the program can count on.  The runtime polls a spawned task
\* that is able to run, so the emission task and the publish tasks make
\* their steps; a consumer that keeps reading takes the item it is offered
\* and sees the end of the stream once it is there.  The consumer may also
\* leave.  Nothing makes the event bus answer: the clients are built by
\* connect(..) alone, with no timeout, so a publish call may stay
\* outstanding for ever.
LiveSpec ==
    /\ Spec
    /\ WF_stream(EmitNext)
    /\ WF_pending(Publish)
    /\ WF_stream(Receive)
    /\ WF_stream(EndOfStream)

\* ------------------------------------------------------------------ claims
\* A step in which a call was served.
Served == last' # last

HasRow(t, x) == \E i \in DOMAIN t : t[i].id = x
RowOf(t, x) == t[CHOOSE i \in DOMAIN t : t[i].id = x]

\* The stored row as the service's message type shows it, column by column.
StoredAsProto(table, row) ==
    IF table = "epics"
    THEN [id |-> row.id, column_id |-> row.column_id,
          assignee_id |-> row.assignee_id, reporter_id |-> row.reporter_id,
          name |-> row.name, description |-> row.description,
          start_date |-> Some([seconds |-> row.start_date.secs,
                               nanos |-> row.start_date.nsecs]),
          due_date |-> Some([seconds |-> row.due_date.secs,
                             nanos |-> row.due_date.nsecs])]
    ELSE row

\* The columns an Update request supplies.  A proto3 string left out of the
\* message arrives as "".
Supplied(table, req) ==
    IF table = "columns" THEN (IF req.column_name = "" THEN {} ELSE {"name"})
    ELSE {c \in DOMAIN req \ {"issue_id", "epic_id"} : IsSome(req[c])}

\* C1: GetById and Delete of an id that was never created return NotFound,
\* for every entity type, when the store itself works.
C1_NeverCreatedIsNotFound ==
    (/\ last.op \in {"GetById", "Delete"}
     /\ last.fault = "none"
     /\ <<last.table, last.id>> \notin everCreated)
    => last.status = "NOT_FOUND"

\* C2: GetById of an id returns the record its Create returned, in every
\* field, as long as no Update or Delete of that id came in between.
C2_CreateThenGetById ==
    (/\ last.op = "GetById"
     /\ last.fault = "none"
     /\ last.id \in DOMAIN fresh
     /\ fresh[last.id].table = last.table)
    => (last.status = "OK" /\ last.body = Some(fresh[last.id].body))

\* C2 witness: an epic read back after another row was created before it.
C2_Witness ==
    /\ last.op = "GetById" /\ last.table = "epics" /\ last.status = "OK"
    /\ last.id \in DOMAIN fresh
    /\ Len(db.epics) = 2
    /\ last.id = db.epics[2].id
    /\ Unwrap(last.body).start_date = Some([seconds |-> 1, nanos |-> 0])

\* C3: a second Delete of an id that was just deleted returns NotFound.
C3_DeleteTwice ==
    [][(/\ Served
        /\ last.op = "Delete" /\ last.status = "OK"
        /\ last'.op = "Delete" /\ last'.table = last.table /\ last'.id = last.id
        /\ last'.fault = "none")
       => last'.status = "NOT_FOUND"]_vars

\* C4: a successful Delete returns the record as it was stored just before
\* the call, and leaves no record with that id.
C4_DeleteReturnsStored ==
    [][(Served /\ last'.op = "Delete" /\ last'.status = "OK")
       => (/\ HasRow(db[last'.table], last'.id)
           /\ last'.body =
                Some(StoredAsProto(last'.table, RowOf(db[last'.table], last'.id)))
           /\ ~HasRow(db'[last'.table], last'.id))]_vars

\* C5: Update of an id that is not in the store returns NotFound and changes
\* no stored record.
C5_UpdateAbsentIsNotFound ==
    [][(/\ Served /\ last'.op = "Update" /\ last'.fault = "none"
        /\ ~HasRow(db[last'.table], last'.id))
       => (last'.status = "NOT_FOUND" /\ db' = db)]_vars

\* C6: Update of an existing id with no field supplied returns OK and leaves
\* every stored field as it was.
C6_EmptyUpdateIsNoOp ==
    [][(/\ Served /\ last'.op = "Update" /\ last'.fault = "none"
        /\ HasRow(db[last'.table], last'.id)
        /\ Supplied(last'.table, last'.req) = {})
       => (last'.status = "OK" /\ db' = db)]_vars

\* C7: Update of an existing id leaves every column the request does not
\* supply at its stored value.
C7_OmittedFieldsKept ==
    [][(/\ Served /\ last'.op = "Update" /\ last'.fault = "none"
        /\ HasRow(db[last'.table], last'.id))
       => (/\ HasRow(db'[last'.table], last'.id)
           /\ \A c \in DOMAIN RowOf(db[last'.table], last'.id) :
                c \notin Supplied(last'.table, last'.req)
                => RowOf(db'[last'.table], last'.id)[c]
                     = RowOf(db[last'.table], last'.id)[c])]_vars

\* C8: a store failure during a call gives the caller UNAVAILABLE; the
\* handler does not panic.
C8_StoreFailureIsUnavailable ==
    last.fault = "db" => last.status = "UNAVAILABLE"

C10_OnePublishPerCall ==
    (last.op # "" /\ ~(last.op = "Search" /\ last.status = "OK"))
    => Len(last.events) = 1

\* C11: a consumer that reads a Search stream to its end has received exactly
\* the records the query matched, each once and in order; once the consumer
\* is gone nothing more is handed off, the store is not touched, and the
\* emission loop ends at its next step.
C11_StreamDelivery ==
    [][/\ (stream'.ended => stream'.got = stream'.matched)
       /\ (stream.pc # "none" /\ last.op = "Search"
           => stream.matched = Unwrap(last.body).stream)
       /\ (stream.rx = "dropped" /\ stream'.pc # "none"
           => /\ stream'.got = stream.got
              /\ stream'.chan = <<>>
              /\ stream'.items = stream.items
              /\ db' = db)
       /\ (stream.rx = "dropped" /\ stream.pc = "loop" /\ stream' # stream
           => stream'.pc = "awaiting")]_vars

\* C11 witness: the consumer has read a stream of two records to its end.
C11_Witness ==
    /\ stream.ended
    /\ Len(stream.matched) = 2
    /\ stream.got = stream.matched

\* C12: the event of a Search that opened a stream is submitted once, when
\* the emission loop is over: not while items remain and the consumer is
\* there, and also when the consumer left before it had every item.
C12_EventAfterLoop ==
    /\ stream.published <= 1
    /\ (stream.published = 1
        => /\ stream.pc \in {"awaiting", "done"}
           /\ (stream.items = <<>> \/ stream.rx = "dropped"))
    /\ (stream.pc \in {"awaiting", "done"} => stream.published = 1)

\* C12 witness: the event was submitted although the consumer left with one
\* of two records still to be handed off.
C12_Witness ==
    /\ stream.rx = "dropped"
    /\ Len(stream.items) = 1
    /\ Len(stream.got) = 1
    /\ stream.published = 1

\* C13: once the consumer has taken the last item of a Search stream it can
\* see the end of the stream, whether or not the publish call has returned.
C13_EndOfStreamNeedsNoPublish ==
    (/\ stream.pc = "awaiting"
     /\ stream.rx = "open"
     /\ stream.chan = <<>>
     /\ stream.got = stream.matched
     /\ ~stream.ended)
    => ENABLED EndOfStream

\* C14: a call that finds the connection pool exhausted or unreachable
\* returns UNAVAILABLE.
C14_PoolFailureIsUnavailable ==
    last.fault = "pool" => last.status = "UNAVAILABLE"

\* What a Search is asked for, read off the request field by field.
IdFilter(req) ==
    CASE "columns_ids" \in DOMAIN req -> req.columns_ids
      [] "issues_ids" \in DOMAIN req -> req.issues_ids
      [] "epics_ids" \in DOMAIN req -> req.epics_ids
      [] OTHER -> req.dependencies_ids

Asks(req, f) == f \in DOMAIN req /\ IsSome(req[f])

OtherFilters(req) ==
    {f \in DOMAIN req \ {"limit", "offset"} : Asks(req, f)}

Satisfies(req, r) ==
    /\ IdFilter(req) = <<>> \/ r.id \in Range(IdFilter(req))
    /\ \A f \in {"board_id", "column_id", "epic_id", "blocking_epic_id",
                 "blocked_epic_id"} :
           Asks(req, f) => r[f] = Unwrap(req[f])
    /\ Asks(req, "min_start_date")
       => LET a == Unwrap(req.min_start_date) IN
          \/ a.seconds < r.start_date.secs
          \/ a.seconds = r.start_date.secs /\ a.nanos <= r.start_date.nsecs
    /\ Asks(req, "max_due_date")
       => LET b == Unwrap(req.max_due_date) IN
          \/ r.due_date.secs < b.seconds
          \/ r.due_date.secs = b.seconds /\ r.due_date.nsecs <= b.nanos

\* The ids of the stored records a Search asks for, in store order.
Wanted(table, req) ==
    LET rows == SelectSeq(db[table], LAMBDA r : Satisfies(req, r))
    IN  [i \in DOMAIN rows |-> rows[i].id]

\* The ids of the records a Search returned.
Returned ==
    [i \in DOMAIN Unwrap(last.body).stream |-> Unwrap(last.body).stream[i].id]

SearchedOk == last.op = "Search" /\ last.status = "OK"
Unpaged == last.req.limit = None /\ last.req.offset = None

\* C15: a Search whose id filter is empty and that supplies no other filter
\* returns every stored record; a Search with id filter S returns exactly
\* the stored records whose id is in S and that pass every other filter
\* supplied.
C15_IdFilter ==
    (SearchedOk /\ Unpaged
     /\ (IdFilter(last.req) # <<>> \/ OtherFilters(last.req) = {}))
    => Returned = Wanted(last.table, last.req)

\* C16: Issue Search returns exactly the stored issues that pass all the
\* filters supplied, epic_id among them.
C16_IssueFilters ==
    (SearchedOk /\ Unpaged /\ last.table = "issues")
    => Returned = Wanted("issues", last.req)

\* C17: Epic Search with minStartDate and maxDueDate returns exactly the
\* stored epics that start at or after the one, are due at or before the
\* other, and pass the other filters supplied.
C17_EpicDateFilters ==
    (/\ SearchedOk /\ Unpaged /\ last.table = "epics"
     /\ (Asks(last.req, "min_start_date") \/ Asks(last.req, "max_due_date")))
    => Returned = Wanted("epics", last.req)

\* C18: with limit n a Search returns at most n records, with offset k it
\* skips the first k matching records, with neither it returns them all.
C18_LimitOffset ==
    (SearchedOk /\ OtherFilters(last.req) = {} /\ IdFilter(last.req) = <<>>)
    => LET all == Wanted(last.table, last.req)
           k == IF Asks(last.req, "offset") THEN Unwrap(last.req.offset) ELSE 0
           rest == SubSeq(all, k + 1, Len(all))
       IN  /\ Asks(last.req, "limit") => Len(Returned) <= Unwrap(last.req.limit)
           /\ ~Asks(last.req, "limit") => Returned = rest

\* C19: every call ends with one status, and that status is OK, NOT_FOUND
\* or UNAVAILABLE.
C19_StatusKinds ==
    last.op # "" => last.status \in {"OK", "NOT_FOUND", "UNAVAILABLE"}

\* C20: a CreateEpic or UpdateEpic without start_date or without due_date is
\* rejected as invalid and leaves the store as it was.
C20_MissingFieldIsInvalid ==
    [][(/\ Served
        /\ last'.table = "epics" /\ last'.op \in {"Create", "Update"}
        /\ last'.fault = "none"
        /\ (last'.req.start_date = None \/ last'.req.due_date = None))
       => (last'.status = "INVALID_ARGUMENT" /\ db' = db)]_vars

\* C21: a call takes at most one connection out of the pool and has given it
\* back when the call is over, whichever way the call ends; between calls no
\* connection is out.
C21_ConnectionReleased ==
    /\ last.conns <= 1
    /\ checkedOut = 0

\* C21 witness: a call that took a connection and then panicked on a store
\* failure, the pool whole again.
C21_Witness ==
    /\ last.fault = "db"
    /\ last.status = "PANIC"
    /\ last.conns = 1
    /\ checkedOut = 0

\* C22: no connection is out of the pool while a publish task or an emission
\* task is still to run, and a step of such a task touches neither the store
\* nor the pool.
C22_TasksHoldNoConnection ==
    [][/\ ((pending' # <<>> \/ stream'.pc \in {"loop", "awaiting"})
            => checkedOut' = 0)
       /\ ((~Served /\ (pending' # pending \/ stream' # stream))
            => (db' = db /\ checkedOut' = checkedOut))]_vars

\* C22 witness: the handler is over, its connection is back, and the emission
\* task still has both records to hand off.
C22_Witness ==
    /\ last.op = "Search" /\ last.conns = 1
    /\ stream.pc = "loop"
    /\ Len(stream.items) = 2
    /\ checkedOut = 0

\* C23: a Search that succeeds returns its stream with nothing handed off
\* and nothing delivered, the emission task still at the head of its loop
\* with every item to go; the task then runs on its own whenever the channel
\* has room.
C23_SearchReturnsAtOnce ==
    /\ [][(Served /\ last'.op = "Search" /\ last'.status = "OK")
          => (/\ stream'.pc = "loop"
              /\ stream'.got = <<>>
              /\ stream'.chan = <<>>
              /\ stream'.items = Unwrap(last'.body).stream)]_vars
    /\ []((stream.pc = "loop" /\ stream.chan = <<>>) => ENABLED EmitNext)

\* C23 witness: after the handler returned the task has handed off the first
\* of two records, and the consumer has taken none.
C23_Witness ==
    /\ last.op = "Search" /\ last.status = "OK"
    /\ Len(Unwrap(last.body).stream) = 2
    /\ stream.pc = "loop"
    /\ stream.chan = <<Unwrap(last.body).stream[1]>>
    /\ stream.got = <<>>

\* C24: the channel of a Search stream never holds more than one item, the
\* items handed off are never more than one ahead of the items taken, and
\* the emission task does not run while the channel is full, the consumer is
\* there and items remain.
C24_SingleSlot ==
    /\ Len(stream.chan) <= 1
    /\ (Len(stream.matched) - Len(stream.items)) - Len(stream.got) <= 1
    /\ (/\ stream.pc = "loop"
        /\ stream.rx = "open"
        /\ stream.chan # <<>>
        /\ stream.items # <<>>)
       => ~ENABLED EmitNext

\* C24 witness: one record is in the channel, one is still to be handed off,
\* and the task is held back.
C24_Witness ==
    /\ stream.pc = "loop"
    /\ stream.rx = "open"
    /\ Len(stream.chan) = 1
    /\ Len(stream.items) = 1
    /\ ~ENABLED EmitNext

\* C25: when a Search has opened a stream and the consumer takes what it is
\* offered or leaves, the emission loop is eventually over, and a consumer
\* that stays eventually sees the end of the stream, having received exactly
\* the records matched.
C25_StreamIsFinite ==
    /\ (stream.pc = "loop") ~> (stream.pc # "loop")
    /\ (stream.pc = "loop" /\ stream.rx = "open")
         ~> (\/ stream.rx = "dropped"
             \/ stream.ended /\ stream.got = stream.matched)

\* The part of C25 about the loop alone.
C25_LoopEnds == (stream.pc = "loop") ~> (stream.pc # "loop")

\* C26: a Search whose store query fails returns UNAVAILABLE with no stream,
\* and no emission task is started.
C26_SearchStoreFailure ==
    (last.op = "Search" /\ last.fault = "db")
    => (/\ last.status = "UNAVAILABLE"
        /\ last.body = None
        /\ stream = NoStream)

\* C26 witness: the query of a Search failed on a store that holds records.
C26_Witness ==
    /\ last.op = "Search" /\ last.fault = "db"
    /\ last.status = "UNAVAILABLE"
    /\ db[last.table] # <<>>
    /\ stream = NoStream

\* C27: a call sends exactly one statement to the store: never two, and
\* none again after a failure.
C27_OneStoreOperation ==
    /\ last.op # "" => Len(last.ops) <= 1
    /\ (last.op # "" /\ last.status # "PANIC") => Len(last.ops) = 1

\* C28: the event of a Create whose insert failed names the entity by the
\* id the call minted for it.
C28_FailedCreateEventHasId ==
    (last.op = "Create" /\ last.fault = "db" /\ last.events # <<>>)
    => Unwrap(last.events[1].entity).id = Some(last.id)

\* What an optional string field of a request can carry: nothing, the empty
\* string, or a string.
OptionalStrings == {None, Some("")} \cup {Some(x) : x \in Str}

\* C29: for a stored epic that has an assignee_id or a description, some
\* UpdateEpic request clears that field, and the request that leaves the
\* field out keeps it.
C29_ClearIsExpressible ==
    \A i \in DOMAIN db.epics :
        \A f \in {"assignee_id", "description"} :
            IsSome(db.epics[i][f]) =>
                LET eid == db.epics[i].id
                    omitted == [epic_id |-> eid] @@ EpicDates
                    After(data) == update_epic(data, db, "none")
                IN  /\ \E v \in OptionalStrings :
                           LET out == After([omitted EXCEPT ![f] = v])
                           IN  /\ out.status = "OK"
                               /\ RowOf(out.db.epics, eid)[f] = None
                    /\ RowOf(After(omitted).db.epics, eid)[f] = db.epics[i][f]

\* The ids of a table's rows, in store order.
IdsOf(t) == [i \in DOMAIN t |-> t[i].id]

\* C30: the ids in the store change only by a Create, which adds the id it
\* returns, and by a successful Delete, which removes the id it names; an
\* Update, and every other step, leaves each stored record its id.
C30_IdNeverChanges ==
    [][\A t \in Tables :
         IF Served /\ last'.table = t /\ last'.op = "Create" /\ last'.status = "OK"
         THEN /\ Unwrap(last'.body).id = last'.id
              /\ IdsOf(db'[t]) = Append(IdsOf(db[t]), last'.id)
         ELSE IF Served /\ last'.table = t /\ last'.op = "Delete" /\ last'.status = "OK"
         THEN IdsOf(db'[t]) = SelectSeq(IdsOf(db[t]), LAMBDA x : x # last'.id)
         ELSE IdsOf(db'[t]) = IdsOf(db[t])]_vars

\* C30 witness: an Update changed a stored record, which still has the id
\* its Create returned.
C30_Witness ==
    /\ last.op = "Update" /\ last.status = "OK"
    /\ HasRow(db[last.table], last.id)
    /\ Unwrap(last.body).id = last.id
    /\ <<last.table, last.id>> \in everCreated
    /\ Supplied(last.table, last.req) # {}

\* The five operations of the contract.
Contract == {"GetById", "Search", "Create", "Update", "Delete"}

\* C31: whichever of the five services the clients call, each of GetById,
\* Search, Create, Update and Delete can be called on it.
C31_UniformSurface ==
    (phase = "serving" /\ stream = NoStream /\ pending = <<>> /\ nextId <= MaxIds
        /\ ~inflight)
    => \A op \in Contract :
           ENABLED (Next /\ last' # last
                         /\ last'.table = service /\ last'.op = op)

\* C32: a lookup of boards by project_id returns exactly the stored boards
\* of that project, all of them when there are several.
C32_BoardsOfProject ==
    (last.op = "GetByProjectId" /\ last.fault = "none")
    => LET returned == IF IsSome(last.body) THEN {Unwrap(last.body)} ELSE {}
       IN  returned = {ProtoBoard(db.boards[i]) : i \in
                          {j \in DOMAIN db.boards :
                              db.boards[j].project_id = last.req.project_id}}

C34_ConcurrentDeletes ==
    [][(/\ Served
        /\ last.op = "Delete" /\ last.fault = "none"
        /\ <<last.table, last.id>> \in everCreated
        /\ last.status = "OK" \/ HasRow(db[last.table], last.id)
        /\ last'.op = "Delete" /\ last'.table = last.table /\ last'.id = last.id
        /\ last'.fault = "none")
       => /\ {last.status, last'.status} = {"OK", "NOT_FOUND"}
          /\ IsSome(last.body) # IsSome(last'.body)
          /\ ~HasRow(db'[last.table], last.id)]_vars

\* The code an error descriptor carries for a status.
CodeOf(status) ==
    CASE status = "NOT_FOUND" -> "NotFound"
      [] status = "UNAVAILABLE" -> "Unavailable"
      [] OTHER -> ""

\* C35: the event a call publishes carries an error descriptor exactly when
\* the status returned to the caller is not OK, and the code of the
\* descriptor is the code of that status.
C35_EventErrorMatchesStatus ==
    \A i \in DOMAIN last.events :
        /\ IsSome(last.events[i].error) <=> last.status # "OK"
        /\ IsSome(last.events[i].error)
             => Unwrap(last.events[i].error).code = CodeOf(last.status)

\* A call that ended with NOT_FOUND and published an event with a descriptor.
C35_Witness ==
    /\ last.status = "NOT_FOUND"
    /\ last.events # <<>>
    /\ IsSome(last.events[1].error)

\* The value v of field f in an event says what the response says with w:
\* the event wraps a required field in Some, carries an optional one as it
\* is, and writes a date as text.
SameValue(table, f, v, w) ==
    CASE f \in {"start_date", "due_date"} ->
           IsSome(v) /\ IsSome(w) /\ ToTimestamp(Unwrap(v).text) = Unwrap(w)
      [] table = "epics" /\ f \in {"assignee_id", "description"} -> v = w
      [] OTHER -> v = Some(w)

\* C36: the entity in the event of a successful unary call has the id and
\* the field values of the entity returned to the caller.
C36_EventEntityIsResponse ==
    (last.status = "OK" /\ last.op # "Search" /\ last.events # <<>>)
    => /\ IsSome(last.events[1].entity)
       /\ LET e == Unwrap(last.events[1].entity)
              b == Unwrap(last.body)
          IN  /\ DOMAIN e = DOMAIN b
              /\ \A f \in DOMAIN b : SameValue(last.table, f, e[f], b[f])

\* An epic was updated and the event of the update was handed over.
C36_Witness ==
    /\ last.table = "epics" /\ last.op = "Update" /\ last.status = "OK"
    /\ last.events # <<>>
    /\ IsSome(last.events[1].entity)

\* The rows of a table other than the one with id x.
Others(t, x) == SelectSeq(t, LAMBDA r : r.id # x)

\* C37: the store changes only in a Create, Update or Delete call that does
\* not return NOT_FOUND or UNAVAILABLE, so never in GetById or Search; and a
\* successful Update or Delete of an id leaves every other record, of that
\* table and of the others, as it was.
C37_Frame ==
    [][/\ db' # db => /\ Served
                      /\ last'.op \in {"Create", "Update", "Delete"}
                      /\ last'.status \notin {"NOT_FOUND", "UNAVAILABLE"}
       /\ (Served /\ last'.op \in {"Update", "Delete"} /\ last'.status = "OK")
            => /\ Others(db'[last'.table], last'.id) = Others(db[last'.table], last'.id)
               /\ \A t \in Tables \ {last'.table} : db'[t] = db[t]]_vars

\* One of two stored records was deleted and the other is still there.
C37_Witness ==
    /\ last.op = "Delete" /\ last.status = "OK"
    /\ Len(db[last.table]) = 1
    /\ db[last.table][1].id # last.id

\* C38: while a Search stream is open, what the consumer has received is
\* the first part of the list the query returned, in its order; and as long
\* as the consumer is there, the items received, the item in the channel and
\* the items still to be handed off make up that list, so none is repeated
\* and none is left out.
C38_ReceivedIsPrefix ==
    stream.pc # "none"
    => /\ Len(stream.got) <= Len(stream.matched)
       /\ stream.got = SubSeq(stream.matched, 1, Len(stream.got))
       /\ stream.rx = "open"
            => stream.got \o stream.chan \o stream.items = stream.matched
       /\ last.op = "Search" /\ stream.matched = Unwrap(last.body).stream

\* The consumer holds the first of two different records and the second
\* is yet to come.
C38_Witness ==
    /\ stream.rx = "open"
    /\ Len(stream.matched) = 2
    /\ stream.matched[1] # stream.matched[2]
    /\ stream.got = <<stream.matched[1]>>

\* The value an Update request asks for in column c, as a response shows it.
Requested(table, req, c) ==
    CASE table = "columns" -> req.column_name
      [] table = "epics" /\ c \in {"assignee_id", "description", "start_date",
                                   "due_date"} -> req[c]
      [] OTHER -> Unwrap(req[c])

\* C39: the record a successful Update returns is the record a GetById of
\* that id returns right after it, and shows in each supplied field the
\* value the request asked for.
C39_UpdateThenGet ==
    /\ [][(/\ Served
           /\ last.op = "Update" /\ last.status = "OK"
           /\ last'.op = "GetById" /\ last'.table = last.table
           /\ last'.id = last.id /\ last'.fault = "none")
          => (last'.status = "OK" /\ last'.body = last.body)]_vars
    /\ []((last.op = "Update" /\ last.status = "OK")
          => \A c \in Supplied(last.table, last.req) :
                 Unwrap(last.body)[c] = Requested(last.table, last.req, c))

\* C40: a CreateEpic that names no column, with both dates given and the
\* store working, ends with OK or UNAVAILABLE whatever the store holds, also
\* when it holds no column; and on OK the epic is stored under the id of a
\* column that was there when the call was made.
C40_DefaultColumn ==
    [][(/\ Served
        /\ last'.table = "epics" /\ last'.op = "Create"
        /\ last'.req.column_id = None
        /\ IsSome(last'.req.start_date) /\ IsSome(last'.req.due_date)
        /\ last'.fault = "none")
       => /\ last'.status \in {"OK", "UNAVAILABLE"}
          /\ last'.status = "OK"
               => /\ HasRow(db'.epics, last'.id)
                  /\ HasRow(db.columns, RowOf(db'.epics, last'.id).column_id)]_vars
====
